---- MODULE Spec2Model ----
(***************************************************************************)
(* Model of src/libsystemd-network/icmp6-util.c: the raw ICMPv6 socket     *)
(* binder, the Router Solicitation sender and the receiver used by Router  *)
(* Discovery.                                                              *)
(*                                                                         *)
(* Three specifications share the variables:                               *)
(*   SpecBind  the process's descriptor table under repeated calls of      *)
(*             icmp6_bind_router_solicitation / _advertisement;            *)
(*   SpecSend  the datagrams handed to the stack by                        *)
(*             icmp6_send_router_solicitation;                             *)
(*   SpecRecv  one call of icmp6_receive on every outcome recvmsg_safe     *)
(*             can yield.                                                  *)
(***************************************************************************)
EXTENDS Integers, Sequences, FiniteSets, TLC

VARIABLES
    open,           \* descriptors open in the process
    sockets,        \* open descriptor -> socket configuration held by the kernel
    returned,       \* descriptor returned by a successful bind -> the call that made it
    lastBind,       \* the latest bind call: what it created, where it failed, what it returned
    wire,           \* datagrams accepted by sendmsg(), in order
    sendLog,        \* link-layer addresses of the send calls that returned 0, in order
    lastSend,       \* the latest send call
    pc,             \* icmp6_receive: "idle", "call", "returned" or "aborted"
    NDEBUG,         \* whether the build compiles assert() out
    call,           \* icmp6_receive: the arguments and what recvmsg_safe yields
    buffer,         \* caller's data buffer
    ret_sender,     \* caller's sender-address output
    ret_timestamp,  \* caller's timestamp output
    recvRet         \* icmp6_receive's return value

vars == <<open, sockets, returned, lastBind, wire, sendLog, lastSend,
          pc, NDEBUG, call, buffer, ret_sender, ret_timestamp, recvRet>>

bindVars == <<open, sockets, returned, lastBind>>
sendVars == <<wire, sendLog, lastSend>>
recvVars == <<pc, NDEBUG, call, buffer, ret_sender, ret_timestamp, recvRet>>

----------------------------------------------------------------------------
(* Bounds of the model *)

\* descriptors the process may hold: socket() fails with EMFILE beyond it
MaxFds ==
    2

\* interface indices 1..MaxIfindex
MaxIfindex ==
    2

\* datagrams the wire records
MaxSent ==
    3

\* requested receive sizes 1..MaxSize; delivered datagrams have 0..MaxSize+1 bytes
MaxSize ==
    2

----------------------------------------------------------------------------
(* Program constants *)

AF_UNSPEC ==
    0
AF_INET ==
    2
AF_INET6 ==
    10
ND_ROUTER_SOLICIT ==
    133
ND_ROUTER_ADVERT ==
    134
ND_OPT_SOURCE_LINKADDR ==
    1
SOL_SOCKET ==
    1
SOL_IPV6 ==
    41
IPV6_HOPLIMIT ==
    52
IPV6_TCLASS ==
    67
SCM_TIMESTAMP ==
    29
EBADF ==
    9
EAGAIN ==
    11
ENODEV ==
    19
EINVAL ==
    22
EMFILE ==
    24
EXFULL ==
    54
EMULTIHOP ==
    72
EPFNOSUPPORT ==
    96
EADDRNOTAVAIL ==
    99
ENOBUFS ==
    105

Min(a, b) == IF a <= b THEN a ELSE b

IN6ADDR_ALL_ROUTERS_MULTICAST_INIT ==
    <<255, 2, 0, 0, 0, 0, 0, 0, 0, 0, 0, 0, 0, 0, 0, 2>>

IN6ADDR_ALL_NODES_MULTICAST_INIT ==
    <<255, 2, 0, 0, 0, 0, 0, 0, 0, 0, 0, 0, 0, 0, 0, 1>>

IN6ADDR_ANY == [i \in 1..16 |-> 0]

----------------------------------------------------------------------------
(* Socket Binder *)

\* ICMPv6 message types the model tells apart; a filter is the set of blocked types
Icmp6Types == {1, 128, 129, 133, 134, 135, 136, 137}

ICMP6_FILTER_SETBLOCKALL == Icmp6Types

ICMP6_FILTER_SETPASS(type, filter) == filter \ {type}

\* types a socket's filter lets through
Passed(cfg) == Icmp6Types \ cfg.filter

\* a raw ICMPv6 socket as socket() creates it
NewSocket ==
    [filter         |-> {},
     groups         |-> {},
     multicast_if   |-> 0,
     multicast_loop |-> TRUE,
     multicast_hops |-> 1,
     unicast_hops   |-> 64,
     recvhoplimit   |-> FALSE,
     timestamp      |-> FALSE,
     bound_if       |-> 0]

\* the setup steps after socket(), in program order
StepSocket ==
    0
StepFilter ==
    1
StepMembership ==
    2
StepMulticastIf ==
    3
StepLoop ==
    4
StepMcastHops ==
    5
StepUcastHops ==
    6
StepRecvHopLimit ==
    7
StepTimestamp ==
    8
StepBindIf ==
    9
NSteps == StepBindIf

\* the environment lets every step succeed
NoFail == NSteps + 1

\* the effect of setup step k on the socket
ApplyStep(k, cfg, filter, mreq) ==
    LET ifindex == mreq.ipv6mr_interface IN
    CASE k = StepFilter       -> [cfg EXCEPT !.filter = filter]
      [] k = StepMembership   -> [cfg EXCEPT !.groups = @ \cup {mreq}]
      [] k = StepMulticastIf  -> [cfg EXCEPT !.multicast_if = ifindex]
      [] k = StepLoop         -> [cfg EXCEPT !.multicast_loop = FALSE]
      [] k = StepMcastHops    -> [cfg EXCEPT !.multicast_hops = 255]
      [] k = StepUcastHops    -> [cfg EXCEPT !.unicast_hops = 255]
      [] k = StepRecvHopLimit -> [cfg EXCEPT !.recvhoplimit = TRUE]
      [] k = StepTimestamp    -> [cfg EXCEPT !.timestamp = TRUE]
      [] k = StepBindIf       -> [cfg EXCEPT !.bound_if = ifindex]

RECURSIVE ApplySteps(_, _, _, _)
\* the socket after setup steps 1..n
ApplySteps(n, cfg, filter, mreq) ==
    IF n = 0 THEN cfg
    ELSE ApplyStep(n, ApplySteps(n - 1, cfg, filter, mreq), filter, mreq)

\* descriptors after stdin, stdout and stderr
Fds == 3 .. (3 + MaxFds - 1)

\* socket(): the lowest unused descriptor, or -1 when the table is full or the
\* kernel refuses
LowestFree(op) ==
    IF Fds \ op = {} THEN -1
    ELSE CHOOSE fd \in Fds \ op : \A g \in Fds \ op : fd <= g

\* _cleanup_close_ on the local variable s at function exit
CleanupCloseLeak(op, s) == op

CleanupClose(op, s) == IF s >= 0 THEN op \ {s} ELSE op

\* a failure chosen by the environment: the step that fails and its errno
BindFails == [step : 0..NoFail, errno : {ENODEV, ENOBUFS}]

icmp6_bind_router_message(filter, mreq, fail, who) ==
    LET fd      == IF fail.step = StepSocket THEN -1 ELSE LowestFree(open)
        errno   == IF fail.step # StepSocket /\ fd < 0 THEN EMFILE ELSE fail.errno
        \* number of setup steps that ran to completion
        done    == IF fail.step = NoFail THEN NSteps ELSE fail.step - 1
        cfg     == ApplySteps(done, NewSocket, filter, mreq)
        ok      == fd >= 0 /\ fail.step = NoFail
        \* the local s when the function returns: TAKE_FD() leaves -EBADF behind
        s       == IF ok THEN -EBADF ELSE fd
        ret     == IF ok THEN fd ELSE -errno
        atExit  == IF fd >= 0 THEN open \cup {fd} ELSE open
        after   == CleanupClose(atExit, s)
    IN  /\ open' = after
        /\ sockets' = [d \in after |-> IF d = fd THEN cfg ELSE sockets[d]]
        /\ returned' = IF ok
                       THEN [d \in DOMAIN returned \cup {fd} |->
                               IF d = fd THEN [who |-> who, ifindex |-> mreq.ipv6mr_interface]
                               ELSE returned[d]]
                       ELSE returned
        /\ lastBind' = [called |-> TRUE, who |-> who, created |-> fd,
                        failed |-> IF fd < 0 THEN StepSocket ELSE fail.step,
                        ret |-> ret]
        /\ UNCHANGED <<sendVars, recvVars>>

SolicitationFilterSwapped ==
    ICMP6_FILTER_SETPASS(ND_ROUTER_SOLICIT, ICMP6_FILTER_SETBLOCKALL)

\* the filter icmp6_bind_router_solicitation() builds
SolicitationFilter ==
    ICMP6_FILTER_SETPASS(ND_ROUTER_ADVERT, ICMP6_FILTER_SETBLOCKALL)

\* the filter icmp6_bind_router_advertisement() builds
AdvertisementFilter ==
    ICMP6_FILTER_SETPASS(ND_ROUTER_SOLICIT, ICMP6_FILTER_SETBLOCKALL)

icmp6_bind_router_solicitation(ifindex, fail) ==
    icmp6_bind_router_message(
        SolicitationFilter,
        [ipv6mr_multiaddr |-> IN6ADDR_ALL_NODES_MULTICAST_INIT, ipv6mr_interface |-> ifindex],
        fail, "solicitation")

icmp6_bind_router_advertisement(ifindex, fail) ==
    icmp6_bind_router_message(
        AdvertisementFilter,
        [ipv6mr_multiaddr |-> IN6ADDR_ALL_ROUTERS_MULTICAST_INIT, ipv6mr_interface |-> ifindex],
        fail, "advertisement")

BindSolicitation ==
    \E ifindex \in 1..MaxIfindex, fail \in BindFails :
        icmp6_bind_router_solicitation(ifindex, fail)

BindAdvertisement ==
    \E ifindex \in 1..MaxIfindex, fail \in BindFails :
        icmp6_bind_router_advertisement(ifindex, fail)

NoBind == [called |-> FALSE, who |-> "none", created |-> -1, failed |-> NoFail, ret |-> 0]

NoSend == [called |-> FALSE, s |-> -1, ether_addr |-> <<>>, ret |-> 0]

NoCall == [size |-> 0]

InitBind ==
    /\ open = {}
    /\ sockets = [d \in {} |-> NewSocket]
    /\ returned = [d \in {} |-> [who |-> "none", ifindex |-> 0]]
    /\ lastBind = NoBind
    /\ wire = <<>>
    /\ sendLog = <<>>
    /\ lastSend = NoSend
    /\ pc = "idle"
    /\ NDEBUG = FALSE
    /\ call = NoCall
    /\ buffer = <<>>
    /\ ret_sender = IN6ADDR_ANY
    /\ ret_timestamp = [realtime |-> 0, monotonic |-> 0, boottime |-> 0]
    /\ recvRet = 0

NextBind == BindSolicitation \/ BindAdvertisement

SpecBind == InitBind /\ [][NextBind]_vars

----------------------------------------------------------------------------
(* Solicitation Sender *)

\* link-layer addresses the callers pass
EtherAddrs ==
    { <<170, 187, 204, 221, 238, 255>>,
      <<0, 0, 0, 0, 0, 0>>,
      <<1, 1, 133, 0, 2, 255>>,
      <<255, 255, 255, 255, 255, 255>> }

\* struct nd_router_solicit: type, code, checksum (2), reserved (4)
NdRouterSolicit(type) == <<type, 0, 0, 0, 0, 0, 0, 0>>

\* struct nd_opt_hdr: type, length in units of 8 bytes
NdOptHdr(type, len) == <<type, len>>

RsPacketPadded(ether_addr) ==
    NdRouterSolicit(ND_ROUTER_SOLICIT)
        \o NdOptHdr(ND_OPT_SOURCE_LINKADDR, 1) \o <<0, 0>> \o ether_addr

\* the packed struct rs as it lies in memory once rs_opt_mac is assigned
RsPacket(ether_addr) ==
    NdRouterSolicit(ND_ROUTER_SOLICIT)
        \o NdOptHdr(ND_OPT_SOURCE_LINKADDR, 1) \o ether_addr

\* struct sockaddr_in6 dst
RsDst == [sin6_family |-> AF_INET6, sin6_addr |-> IN6ADDR_ALL_ROUTERS_MULTICAST_INIT]

\* errno of a failing sendmsg(); 0 is success
SendErrnos == {0, EAGAIN, ENOBUFS}

icmp6_send_router_solicitation(s, ether_addr, errno) ==
    LET failed == IF s \notin open THEN EBADF ELSE errno
        ret    == IF failed # 0 THEN -failed ELSE 0
    IN  /\ s >= 0
        /\ Len(wire) < MaxSent
        /\ wire' = IF ret = 0
                   THEN Append(wire, [dst |-> RsDst, data |-> RsPacket(ether_addr)])
                   ELSE wire
        /\ sendLog' = IF ret = 0 THEN Append(sendLog, ether_addr) ELSE sendLog
        /\ lastSend' = [called |-> TRUE, s |-> s, ether_addr |-> ether_addr, ret |-> ret]
        /\ UNCHANGED <<bindVars, recvVars>>

SendSolicitation ==
    \E s \in Fds, ether_addr \in EtherAddrs, errno \in SendErrnos :
        icmp6_send_router_solicitation(s, ether_addr, errno)

\* the state after icmp6_bind_router_solicitation(1) succeeded in a fresh process
InitSend ==
    /\ open = {3}
    /\ sockets = [d \in {3} |->
                    ApplySteps(NSteps, NewSocket, SolicitationFilter,
                               [ipv6mr_multiaddr |-> IN6ADDR_ALL_NODES_MULTICAST_INIT,
                                ipv6mr_interface |-> 1])]
    /\ returned = [d \in {3} |-> [who |-> "solicitation", ifindex |-> 1]]
    /\ lastBind = [called |-> TRUE, who |-> "solicitation", created |-> 3,
                   failed |-> NoFail, ret |-> 3]
    /\ wire = <<>>
    /\ sendLog = <<>>
    /\ lastSend = NoSend
    /\ pc = "idle"
    /\ NDEBUG = FALSE
    /\ call = NoCall
    /\ buffer = <<>>
    /\ ret_sender = IN6ADDR_ANY
    /\ ret_timestamp = [realtime |-> 0, monotonic |-> 0, boottime |-> 0]
    /\ recvRet = 0

NextSend == SendSolicitation

SpecSend == InitSend /\ [][NextSend]_vars

----------------------------------------------------------------------------
(* Advertisement Receiver: time-util and in-addr-util helpers *)

USEC_PER_SEC ==
    1000000

\* the largest usec_t: UINT64_MAX in the program, the largest integer here
USEC_INFINITY ==
    2147483647

\* struct timeval <<tv_sec, tv_usec>> -> usec_t
timeval_load(tv) ==
    IF tv[1] < 0 \/ tv[2] < 0 THEN USEC_INFINITY
    ELSE IF tv[1] > (USEC_INFINITY - tv[2]) \div USEC_PER_SEC THEN USEC_INFINITY
    ELSE tv[1] * USEC_PER_SEC + tv[2]

timestamp_is_set(u) == u > 0 /\ u # USEC_INFINITY

triple_timestamp_is_set(t) ==
    timestamp_is_set(t.realtime) \/ timestamp_is_set(t.monotonic) \/ timestamp_is_set(t.boottime)

map_clock_usec_raw(from, from_base, to_base) ==
    IF from >= from_base
    THEN LET delta == from - from_base
         IN  IF to_base >= USEC_INFINITY - delta THEN USEC_INFINITY ELSE to_base + delta
    ELSE LET delta == from_base - from
         IN  IF to_base <= delta THEN 0 ELSE to_base - delta

\* clk is what now() reads on the three clocks
triple_timestamp_from_realtime(u, clk) ==
    IF ~timestamp_is_set(u)
    THEN [realtime |-> USEC_INFINITY, monotonic |-> USEC_INFINITY, boottime |-> USEC_INFINITY]
    ELSE [realtime  |-> u,
          monotonic |-> map_clock_usec_raw(u, clk.realtime, clk.monotonic),
          boottime  |-> map_clock_usec_raw(u, clk.realtime, clk.boottime)]

triple_timestamp_get(clk) ==
    [realtime |-> clk.realtime, monotonic |-> clk.monotonic, boottime |-> clk.boottime]

\* fe80::/10
in6_addr_is_link_local(a) == a[1] = 254 /\ (a[2] \div 64) = 2

in6_addr_is_null(a) == \A i \in 1..16 : a[i] = 0

----------------------------------------------------------------------------
(* Advertisement Receiver: what the kernel hands to icmp6_receive *)

SIZEOF_SOCKADDR_IN6 ==
    28
SIZEOF_SOCKADDR_IN ==
    16
SIZEOF_INT ==
    4
SIZEOF_TIMEVAL ==
    16
SIZEOF_CMSGHDR ==
    16
SIZEOF_IN6_PKTINFO ==
    20
IPV6_PKTINFO ==
    50

CMSG_ALIGN(n) == ((n + 7) \div 8) * 8
CMSG_LEN(n) == SIZEOF_CMSGHDR + n
CMSG_SPACE(n) == SIZEOF_CMSGHDR + CMSG_ALIGN(n)

\* sizeof(control): room for the hop limit and the timestamp
ControlSize == CMSG_SPACE(SIZEOF_INT) + CMSG_SPACE(SIZEOF_TIMEVAL)

Addr(hi, lo, last) == [i \in 1..16 |-> IF i = 1 THEN hi ELSE IF i = 2 THEN lo
                                       ELSE IF i = 16 THEN last ELSE 0]

\* sender addresses: fe80::1, febf::1, fec0::1, ::, ::1, 2001::1, ff02::1
SenderAddrs ==
    { Addr(254, 128, 1), Addr(254, 191, 1), Addr(254, 192, 1), Addr(0, 0, 0),
      Addr(0, 0, 1), Addr(32, 1, 1), Addr(255, 2, 1) }

\* msg_namelen and the sockaddr_union the kernel fills in
SenderNames ==
    [msg_namelen : {SIZEOF_SOCKADDR_IN6}, sin6_family : {AF_INET6}, sin6_addr : SenderAddrs]
    \cup [msg_namelen : {SIZEOF_SOCKADDR_IN6}, sin6_family : {AF_INET}, sin6_addr : {Addr(254, 128, 1)}]
    \cup [msg_namelen : {SIZEOF_SOCKADDR_IN}, sin6_family : {AF_INET, AF_INET6}, sin6_addr : {IN6ADDR_ANY}]
    \cup [msg_namelen : {0}, sin6_family : {AF_UNSPEC}, sin6_addr : {IN6ADDR_ANY}]

HopLimitCmsg(hops) ==
    [cmsg_level |-> SOL_IPV6, cmsg_type |-> IPV6_HOPLIMIT,
     cmsg_len |-> CMSG_LEN(SIZEOF_INT), data |-> <<hops>>]

TimestampCmsg(tv) ==
    [cmsg_level |-> SOL_SOCKET, cmsg_type |-> SCM_TIMESTAMP,
     cmsg_len |-> CMSG_LEN(SIZEOF_TIMEVAL), data |-> tv]

TclassCmsg ==
    [cmsg_level |-> SOL_IPV6, cmsg_type |-> IPV6_TCLASS,
     cmsg_len |-> CMSG_LEN(SIZEOF_INT), data |-> <<0>>]

\* an entry of a socket on which the caller also switched IPV6_RECVPKTINFO on
PktinfoCmsg ==
    [cmsg_level |-> SOL_IPV6, cmsg_type |-> IPV6_PKTINFO,
     cmsg_len |-> CMSG_LEN(SIZEOF_IN6_PKTINFO), data |-> <<1>>]

HopValues == {1, 64, 255}

TimevalValues == { <<0, 0>>, <<1, 2>>, <<2, 999990>>, <<3, 5>> }

Cmsgs ==
    {HopLimitCmsg(h) : h \in HopValues} \cup {TimestampCmsg(tv) : tv \in TimevalValues}
        \cup {TclassCmsg, PktinfoCmsg}

RECURSIVE ControlTruncated(_, _)
\* MSG_CTRUNC: the kernel appends the entries in order into the room bytes left of
\* the control buffer; an entry whose cmsg_len exceeds what is left is cut
ControlTruncated(control, room) ==
    IF control = <<>> THEN FALSE
    ELSE LET len == Head(control).cmsg_len
         IN  \/ room < len
             \/ ControlTruncated(Tail(control), room - Min(CMSG_ALIGN(len), room))

\* the ancillary data the kernel has for a datagram, fitting the control buffer or not
Controls ==
    {<<>>} \cup {<<a>> : a \in Cmsgs} \cup {<<a, b>> : a \in Cmsgs, b \in Cmsgs}

\* payload of a datagram of m bytes: a Router Advertisement type, then filler
Payload(m) == [i \in 1..m |-> IF i = 1 THEN ND_ROUTER_ADVERT ELSE i]

\* what recvmsg() meets: an error, or the datagram at the head of the queue
Datagrams ==
    { [errno |-> 0, data |-> Payload(m), name |-> n, control |-> c] :
        m \in 0..(MaxSize + 1), n \in SenderNames, c \in Controls }

RecvErrors ==
    { [errno |-> e, data |-> <<>>,
       name |-> [msg_namelen |-> 0, sin6_family |-> AF_UNSPEC, sin6_addr |-> IN6ADDR_ANY],
       control |-> <<>>] : e \in {EAGAIN, ENOBUFS} }

Clocks ==
    { [realtime |-> 3000000, monotonic |-> 50, boottime |-> 60],
      [realtime |-> 3000001, monotonic |-> 51, boottime |-> 3000000] }

\* what the caller's outputs hold before the call: 0xEE in every byte of the buffer
StaleSender == Addr(32, 1, 153)
StaleTimestamp == [realtime |-> 1, monotonic |-> 1, boottime |-> 1]

----------------------------------------------------------------------------
(* Advertisement Receiver: icmp6_receive *)

\* recvmsg(fd, &msg, MSG_DONTWAIT) through recvmsg_safe: a negative errno when
\* recvmsg fails; otherwise recvmsg has copied the datagram into the buffer, a
\* longer one cut to the buffer and flagged MSG_TRUNC, and the result is -EXFULL
\* when the ancillary data was cut (MSG_CTRUNC), else the number of bytes copied
recvmsg_safe(rx, size, buf) ==
    IF rx.errno # 0
    THEN [len |-> -rx.errno, buffer |-> buf, trunc |-> FALSE,
          name |-> rx.name, control |-> <<>>]
    ELSE LET copied == Min(Len(rx.data), size)
         IN  [len     |-> IF ControlTruncated(rx.control, ControlSize) THEN -EXFULL
                          ELSE copied,
              buffer  |-> SubSeq(rx.data, 1, copied) \o SubSeq(buf, copied + 1, Len(buf)),
              trunc   |-> Len(rx.data) > size,
              name    |-> rx.name,
              control |-> rx.control]

SenderCheckAnyFamily(name) ==
    IF name.msg_namelen = SIZEOF_SOCKADDR_IN6
    THEN IF ~in6_addr_is_link_local(name.sin6_addr) /\ ~in6_addr_is_null(name.sin6_addr)
         THEN [ret |-> -EADDRNOTAVAIL, addr |-> name.sin6_addr]
         ELSE [ret |-> 0, addr |-> name.sin6_addr]
    ELSE [ret |-> 0, addr |-> IN6ADDR_ANY]

\* classification of the sender address; addr is the local variable
SenderCheck(name) ==
    IF name.msg_namelen = SIZEOF_SOCKADDR_IN6 /\ name.sin6_family = AF_INET6
    THEN IF ~in6_addr_is_link_local(name.sin6_addr) /\ ~in6_addr_is_null(name.sin6_addr)
         THEN [ret |-> -EADDRNOTAVAIL, addr |-> name.sin6_addr]
         ELSE [ret |-> 0, addr |-> name.sin6_addr]
    ELSE IF name.msg_namelen > 0
         THEN [ret |-> -EPFNOSUPPORT, addr |-> IN6ADDR_ANY]
         ELSE [ret |-> 0, addr |-> IN6ADDR_ANY]

IsHopLimitCmsg(c) ==
    /\ c.cmsg_level = SOL_IPV6
    /\ c.cmsg_type = IPV6_HOPLIMIT
    /\ c.cmsg_len = CMSG_LEN(SIZEOF_INT)

IsTimestampCmsg(c) ==
    /\ c.cmsg_level = SOL_SOCKET
    /\ c.cmsg_type = SCM_TIMESTAMP
    /\ c.cmsg_len = CMSG_LEN(SIZEOF_TIMEVAL)

RECURSIVE ScanControlNoReject(_, _, _)
ScanControlNoReject(control, t, clk) ==
    IF control = <<>> THEN [ret |-> 0, t |-> t]
    ELSE LET c == Head(control)
         IN  ScanControlNoReject(
                 Tail(control),
                 IF IsTimestampCmsg(c)
                 THEN triple_timestamp_from_realtime(timeval_load(c.data), clk)
                 ELSE t,
                 clk)

RECURSIVE ScanControlBreak(_, _, _)
ScanControlBreak(control, t, clk) ==
    IF control = <<>> THEN [ret |-> 0, t |-> t]
    ELSE LET c == Head(control)
         IN  IF IsHopLimitCmsg(c) /\ c.data[1] # 255
             THEN [ret |-> -EMULTIHOP, t |-> t]
             ELSE IF IsTimestampCmsg(c)
             THEN [ret |-> 0, t |-> triple_timestamp_from_realtime(timeval_load(c.data), clk)]
             ELSE ScanControlBreak(Tail(control), t, clk)

RECURSIVE ScanControl(_, _, _)
\* CMSG_FOREACH: the hop-limit check and the timestamp conversion, entry by entry
ScanControl(control, t, clk) ==
    IF control = <<>> THEN [ret |-> 0, t |-> t]
    ELSE LET c == Head(control)
         IN  IF IsHopLimitCmsg(c) /\ c.data[1] # 255
             THEN [ret |-> -EMULTIHOP, t |-> t]
             ELSE ScanControl(
                      Tail(control),
                      IF IsTimestampCmsg(c)
                      THEN triple_timestamp_from_realtime(timeval_load(c.data), clk)
                      ELSE t,
                      clk)

TimestampOutAlwaysNow(t, clk) == triple_timestamp_get(clk)

\* what is stored through ret_timestamp
TimestampOut(t, clk) ==
    IF triple_timestamp_is_set(t) THEN t ELSE triple_timestamp_get(clk)

FailClearsSender(r, buf, sender0, timestamp0) ==
    [pc |-> "returned", ret |-> r, buffer |-> buf,
     ret_sender |-> IN6ADDR_ANY, ret_timestamp |-> timestamp0]

\* an early return: the outputs keep what they held, the buffer what recvmsg left
Fail(r, buf, sender0, timestamp0) ==
    [pc |-> "returned", ret |-> r, buffer |-> buf,
     ret_sender |-> sender0, ret_timestamp |-> timestamp0]

\* triple_timestamp t = {}
UnsetTimestamp == [realtime |-> 0, monotonic |-> 0, boottime |-> 0]

\* the whole call; ndebug builds compile the assertion out and run on
Receive(c, buf, sender0, timestamp0, ndebug) ==
    LET m    == recvmsg_safe(c.rx, c.size, buf)
        sc   == SenderCheck(m.name)
        scan == ScanControl(m.control, UnsetTimestamp, c.clk)
    IN  IF m.len < 0 THEN Fail(m.len, m.buffer, sender0, timestamp0)
        ELSE IF m.len # c.size THEN Fail(-EINVAL, m.buffer, sender0, timestamp0)
        ELSE IF sc.ret < 0 THEN Fail(sc.ret, m.buffer, sender0, timestamp0)
        ELSE IF m.trunc /\ ~ndebug
        THEN [pc |-> "aborted", ret |-> 0, buffer |-> m.buffer,
              ret_sender |-> sender0, ret_timestamp |-> timestamp0]
        ELSE IF scan.ret < 0 THEN Fail(scan.ret, m.buffer, sender0, timestamp0)
        ELSE [pc            |-> "returned",
              ret           |-> 0,
              buffer        |-> m.buffer,
              ret_sender    |-> IF c.want_sender THEN sc.addr ELSE sender0,
              ret_timestamp |-> IF c.want_timestamp
                                THEN TimestampOut(scan.t, c.clk)
                                ELSE timestamp0]

icmp6_receive ==
    /\ pc = "call"
    /\ LET r == Receive(call, buffer, ret_sender, ret_timestamp, NDEBUG)
       IN  /\ pc' = r.pc
           /\ recvRet' = r.ret
           /\ buffer' = r.buffer
           /\ ret_sender' = r.ret_sender
           /\ ret_timestamp' = r.ret_timestamp
    /\ UNCHANGED <<call, NDEBUG, bindVars, sendVars>>

Calls ==
    [size : 1..MaxSize, rx : Datagrams \cup RecvErrors, clk : Clocks,
     want_sender : BOOLEAN, want_timestamp : BOOLEAN]

InitRecv ==
    /\ open = {3}
    /\ sockets = [d \in {3} |->
                    ApplySteps(NSteps, NewSocket, SolicitationFilter,
                               [ipv6mr_multiaddr |-> IN6ADDR_ALL_NODES_MULTICAST_INIT,
                                ipv6mr_interface |-> 1])]
    /\ returned = [d \in {3} |-> [who |-> "solicitation", ifindex |-> 1]]
    /\ lastBind = [called |-> TRUE, who |-> "solicitation", created |-> 3,
                   failed |-> NoFail, ret |-> 3]
    /\ wire = <<>>
    /\ sendLog = <<>>
    /\ lastSend = NoSend
    /\ pc = "call"
    /\ NDEBUG \in BOOLEAN
    /\ call \in Calls
    /\ buffer = [i \in 1..call.size |-> 238]
    /\ ret_sender = StaleSender
    /\ ret_timestamp = StaleTimestamp
    /\ recvRet = 0

NextRecv == icmp6_receive

SpecRecv == InitRecv /\ [][NextRecv]_vars

----------------------------------------------------------------------------
(* Properties of the Socket Binder *)

\* C1: whichever step fails, the call returns a negative code and the descriptor
\* it created is closed when it returns; the descriptor stays open only when
\* every step succeeded, and then it is the value returned. So the open
\* descriptors are exactly those returned by successful calls.
BindClosesOnFailure ==
    /\ open = DOMAIN returned
    /\ lastBind.called =>
         IF lastBind.failed = 10
         THEN /\ lastBind.ret = lastBind.created
              /\ lastBind.ret >= 0
              /\ lastBind.ret \in open
         ELSE /\ lastBind.ret < 0
              /\ lastBind.created \notin open

\* C1 witness: a step after socket() failed while an earlier call's socket is held
BindFailedAfterSocket ==
    /\ lastBind.called
    /\ lastBind.failed \in 1..9
    /\ lastBind.created >= 0
    /\ DOMAIN returned # {}

\* C2: a socket returned for solicitation passes exactly Router Advertisement and
\* is joined to exactly ff02::1 on its interface; one returned for advertisement
\* passes exactly Router Solicitation and is joined to exactly ff02::2; both have
\* loopback off, hop limits 255, hop-limit and timestamp ancillary data on, and
\* are bound to the interface.
BoundSocketConfiguration ==
    \A fd \in DOMAIN returned :
        LET c   == sockets[fd]
            r   == returned[fd]
            sol == r.who = "solicitation"
        IN  /\ r.who \in {"solicitation", "advertisement"}
            /\ Passed(c) = {IF sol THEN 134 ELSE 133}
            /\ c.groups =
                 {[ipv6mr_multiaddr |->
                       <<255, 2, 0, 0, 0, 0, 0, 0, 0, 0, 0, 0, 0, 0, 0, IF sol THEN 1 ELSE 2>>,
                   ipv6mr_interface |-> r.ifindex]}
            /\ c.multicast_loop = FALSE
            /\ c.multicast_hops = 255
            /\ c.unicast_hops = 255
            /\ c.recvhoplimit = TRUE
            /\ c.timestamp = TRUE
            /\ c.bound_if = r.ifindex
            /\ c.multicast_if = r.ifindex

\* C2 witness: one socket of each kind is held, on different interfaces
BothKindsBound ==
    \E a \in DOMAIN returned, b \in DOMAIN returned :
        /\ returned[a].who = "solicitation"
        /\ returned[b].who = "advertisement"
        /\ returned[a].ifindex # returned[b].ifindex

----------------------------------------------------------------------------
(* Properties of the Solicitation Sender *)

\* re-parsing the option at offset 8 of a solicitation: the link-layer address of
\* a Source Link-Layer Address option of one unit, <<>> otherwise
ParseSourceLinkAddr(data) ==
    IF Len(data) = 16 /\ data[9] = 1 /\ data[10] = 1
    THEN [i \in 1..6 |-> data[10 + i]]
    ELSE <<>>

\* C8: every call that succeeds puts exactly one datagram on the wire, addressed
\* to ff02::2, of exactly 16 bytes: byte 0 is 133, bytes 1-7 are zero, byte 8 is 1,
\* byte 9 is 1, bytes 10-15 are the link-layer address, which re-parsing yields back.
SolicitationWireFormat ==
    /\ Len(wire) = Len(sendLog)
    /\ \A i \in 1..Len(wire) :
         LET d == wire[i].data IN
         /\ wire[i].dst.sin6_family = 10
         /\ wire[i].dst.sin6_addr = <<255, 2, 0, 0, 0, 0, 0, 0, 0, 0, 0, 0, 0, 0, 0, 2>>
         /\ Len(d) = 16
         /\ d[1] = 133
         /\ \A j \in 2..8 : d[j] = 0
         /\ d[9] = 1
         /\ d[10] = 1
         /\ SubSeq(d, 11, 16) = sendLog[i]
         /\ ParseSourceLinkAddr(d) = sendLog[i]
    /\ (lastSend.called /\ lastSend.ret = 0) =>
         /\ wire # <<>>
         /\ ParseSourceLinkAddr(wire[Len(wire)].data) = lastSend.ether_addr
    /\ (lastSend.called /\ lastSend.ret # 0) => lastSend.ret < 0

\* C8 witness: AA:BB:CC:DD:EE:FF was sent after another address
SentExampleAddress ==
    /\ Len(wire) >= 2
    /\ lastSend.ret = 0
    /\ lastSend.ether_addr = <<170, 187, 204, 221, 238, 255>>
    /\ sendLog[1] # lastSend.ether_addr

----------------------------------------------------------------------------
(* Properties of the Advertisement Receiver *)

Finished == pc \in {"returned", "aborted"}

\* recvmsg copied a datagram into the buffer
Arrived == call.rx.errno = 0

\* recvmsg_safe handed the datagram on: its ancillary data fit the control buffer
Delivered == Arrived /\ ~ControlTruncated(call.rx.control, 56)

Control == call.rx.control

HopLimitEntries == {i \in 1..Len(Control) : IsHopLimitCmsg(Control[i])}

TimestampEntries == {i \in 1..Len(Control) : IsTimestampCmsg(Control[i])}

AcceptableSender ==
    LET n == call.rx.name IN
    \/ n.msg_namelen = 0
    \/ /\ n.msg_namelen = 28
       /\ n.sin6_family = 10
       /\ \/ n.sin6_addr[1] = 254 /\ n.sin6_addr[2] \in 128..191
          \/ \A i \in 1..16 : n.sin6_addr[i] = 0

StaleBuffer == [i \in 1..call.size |-> 238]

\* C3: a datagram of M bytes with M # N, shorter or longer, that recvmsg_safe
\* hands on makes the call fail with -EINVAL, whatever its sender and ancillary data.
SizeMismatchIsEinval ==
    (Finished /\ Delivered /\ Len(call.rx.data) # call.size) =>
        (pc = "returned" /\ recvRet = -22)

\* C7: the non-truncation assertion never fails, and success means the buffer
\* holds the complete datagram, whose length is the requested size.
NeverTruncated ==
    /\ pc # "aborted"
    /\ (pc = "returned" /\ recvRet = 0) =>
         (Len(call.rx.data) = call.size /\ buffer = call.rx.data)

\* C4: a received (handed on by recvmsg_safe) size-matching datagram from an
\* acceptable sender whose ancillary data
\* holds a hop-limit entry other than 255 fails with -EMULTIHOP, wherever that
\* entry stands and whether or not a timestamp entry is present.
MultihopRejected ==
    ( /\ Finished
      /\ Delivered
      /\ Len(call.rx.data) = call.size
      /\ AcceptableSender
      /\ \E i \in HopLimitEntries : Control[i].data[1] # 255 ) =>
        (pc = "returned" /\ recvRet = -72)

\* C4 witness: the offending hop-limit entry follows a timestamp entry
MultihopAfterTimestamp ==
    /\ pc = "returned"
    /\ recvRet = -72
    /\ Len(Control) = 2
    /\ IsTimestampCmsg(Control[1])
    /\ IsHopLimitCmsg(Control[2])
    /\ Control[2].data[1] = 64

\* C5 as claimed: success only for packets that reported a hop limit of 255.
AcceptedOnlyWithHopLimit255 ==
    (pc = "returned" /\ recvRet = 0) =>
        /\ \E i \in HopLimitEntries : Control[i].data[1] = 255
        /\ \A i \in HopLimitEntries : Control[i].data[1] = 255

\* C5 amended: success only for packets that reported no hop limit other than
\* 255; a size-matching packet from an acceptable sender is accepted exactly
\* when every hop-limit entry it carries is 255, also when it carries none.
AcceptedHasNoOtherHopLimit ==
    /\ (pc = "returned" /\ recvRet = 0) =>
         \A i \in HopLimitEntries : Control[i].data[1] = 255
    /\ (Finished /\ Delivered /\ Len(call.rx.data) = call.size /\ AcceptableSender) =>
         /\ pc = "returned"
         /\ recvRet = 0 <=> \A i \in HopLimitEntries : Control[i].data[1] = 255

\* C5 witness: a packet reporting hop limit 255 beside a timestamp was accepted
AcceptedWithHopLimit255 ==
    /\ pc = "returned"
    /\ recvRet = 0
    /\ TimestampEntries # {}
    /\ \E i \in HopLimitEntries : Control[i].data[1] = 255

\* C6: for a received (handed on by recvmsg_safe) size-matching datagram, an IPv6 sender neither link-local nor
\* unspecified fails with -EADDRNOTAVAIL; a present sender that is no IPv6
\* address of the expected form fails with -EPFNOSUPPORT; an absent sender is
\* tolerated; so a sender address written on success is link-local or all-zero.
SenderClassified ==
    LET n    == call.rx.name
        in6  == n.msg_namelen = 28 /\ n.sin6_family = 10
        ll   == n.sin6_addr[1] = 254 /\ n.sin6_addr[2] \in 128..191
        null == \A i \in 1..16 : n.sin6_addr[i] = 0
    IN  /\ (Finished /\ Delivered /\ Len(call.rx.data) = call.size) =>
             /\ (in6 /\ ~ll /\ ~null) => (pc = "returned" /\ recvRet = -99)
             /\ (n.msg_namelen > 0 /\ ~in6) => (pc = "returned" /\ recvRet = -96)
             /\ (n.msg_namelen = 0 \/ (in6 /\ (ll \/ null))) => recvRet \notin {-99, -96}
        /\ (pc = "returned" /\ recvRet = 0 /\ call.want_sender) =>
             \/ ret_sender[1] = 254 /\ ret_sender[2] \in 128..191
             \/ \A i \in 1..16 : ret_sender[i] = 0

\* C6 witness: a global unicast sender was refused
GlobalSenderRefused ==
    /\ pc = "returned"
    /\ recvRet = -99
    /\ call.rx.name.sin6_addr[1] = 32
    /\ Len(call.rx.data) = call.size

\* C9 as claimed: on every failing call the buffer, the sender output and the
\* timestamp output are as they were before the call.
FailureLeavesAllOutputs ==
    (pc = "returned" /\ recvRet < 0) =>
        /\ buffer = StaleBuffer
        /\ ret_sender = StaleSender
        /\ ret_timestamp = StaleTimestamp

\* C9 amended: on every failing call the sender output and the timestamp output
\* are as they were before the call; the buffer is as it was only when recvmsg
\* itself failed, and otherwise (also when the ancillary data was cut and the
\* call returns -EXFULL) holds the bytes received.
FailureLeavesSenderAndTimestamp ==
    (pc = "returned" /\ recvRet < 0) =>
        /\ ret_sender = StaleSender
        /\ ret_timestamp = StaleTimestamp
        /\ ~Arrived => buffer = StaleBuffer
        /\ Arrived =>
             \A i \in 1..call.size :
                 buffer[i] = IF i <= Len(call.rx.data) THEN call.rx.data[i] ELSE 238

\* C9 witness: a call asking for both outputs was refused for its hop limit
RefusedWithOutputsRequested ==
    /\ pc = "returned"
    /\ recvRet = -72
    /\ call.want_sender
    /\ call.want_timestamp
    /\ call.rx.name.msg_namelen = 28
    /\ buffer = call.rx.data

\* the value of the last timestamp entry, 0 when there is none
KernelRealtime ==
    IF TimestampEntries = {} THEN 0
    ELSE timeval_load(
             Control[CHOOSE i \in TimestampEntries : \A j \in TimestampEntries : j <= i].data)

\* C10 as claimed: with a timestamp entry present, whatever its value, the
\* timestamp returned is the one derived from it; the clocks are sampled exactly
\* when no timestamp entry was present.
TimestampFromAnyEntry ==
    (pc = "returned" /\ recvRet = 0 /\ call.want_timestamp) =>
        /\ TimestampEntries # {} => ret_timestamp.realtime = KernelRealtime
        /\ ret_timestamp = triple_timestamp_get(call.clk) <=> TimestampEntries = {}

\* C10 amended: with a timestamp entry carrying a set value (neither zero nor
\* infinite) the timestamp returned is the one derived from it; the clocks are
\* sampled exactly when no entry carrying a set value was present.
TimestampFromSetEntry ==
    (pc = "returned" /\ recvRet = 0 /\ call.want_timestamp) =>
        LET u   == KernelRealtime
            set == u > 0 /\ u # USEC_INFINITY
        IN  /\ set => /\ ret_timestamp.realtime = u
                      /\ ret_timestamp = triple_timestamp_from_realtime(u, call.clk)
            /\ ret_timestamp = triple_timestamp_get(call.clk) <=> ~set

\* C10 witness: a kernel timestamp older than the clocks' sample was returned
KernelTimestampReturned ==
    /\ pc = "returned"
    /\ recvRet = 0
    /\ call.want_timestamp
    /\ TimestampEntries # {}
    /\ ret_timestamp.realtime = 2999990
    /\ ret_timestamp.monotonic < call.clk.monotonic

====
